---- MODULE Spec2Model ----
(***************************************************************************)
(* Changelog CI: the configuration resolver (scripts/config.py) and the    *)
(* pull-request run (scripts/main.py).                                     *)
(*                                                                         *)
(* Python values are tagged records: t is the Python type, v the value.    *)
(* A str is the sequence of its characters, a list the sequence of its     *)
(* elements, a dict a function from its keys.  A float is written by the   *)
(* integer it equals (PyFloat(1) is 1.0).                                  *)
(***************************************************************************)
EXTENDS Integers, Sequences, FiniteSets, TLC

VARIABLES
    pc,               \* position of the process
    user_config,      \* the raw mapping handed to clean_user_config
    config,           \* the Configuration object (or NoConfig)
    error,            \* the exception that ended the process ("none" if none)
    release_version,  \* ChangelogCIBase.release_version
    builder,          \* ChangelogCIBase.builder
    env,              \* os.environ
    changelog_file,   \* the file at config.changelog_filename (or Absent)
    file_before,      \* changelog_file as it was when the run started
    changelog_string  \* the string builder.build() returned

vars == <<pc, user_config, config, error, release_version, builder, env,
          changelog_file, file_before, changelog_string>>

---------------------------------------------------------------------------
(* Bounds *)

MaxKeys == 2
MaxStrLen == 4
MaxListLen == 2
MaxGroups == 2
MaxFileLen == 6
MaxSectionLen == 2

---------------------------------------------------------------------------
(* Python values *)

None == [t |-> "NoneType"]
PyStr(s) == [t |-> "str", v |-> s]
PyInt(n) == [t |-> "int", v |-> n]
PyFloat(n) == [t |-> "float", v |-> n]
PyBool(b) == [t |-> "bool", v |-> b]
PyList(xs) == [t |-> "list", v |-> xs]
PyDict(d) == [t |-> "dict", v |-> d]

isinstance(value, type) == value.t = type

\* Python's truth value of an object: `not value` is ~Truthy(value)
Truthy(value) ==
    CASE value.t = "NoneType" -> FALSE
      [] value.t = "str" -> Len(value.v) > 0
      [] value.t = "int" -> value.v # 0
      [] value.t = "float" -> value.v # 0
      [] value.t = "bool" -> value.v
      [] value.t = "list" -> Len(value.v) > 0
      [] value.t = "dict" -> DOMAIN value.v # {}

\* bool(value)
bool(value) == PyBool(Truthy(value))

\* `value in [0, 1, False, True]`: list membership compares with ==, and
\* Python's == on numbers is by value (True == 1, 0.0 == 0)
InZeroOneFalseTrue(value) ==
    \/ value.t = "bool"
    \/ value.t \in {"int", "float"} /\ value.v \in {0, 1}

\* str.endswith
endswith(s, suffix) ==
    /\ Len(s) >= Len(suffix)
    /\ SubSeq(s, Len(s) - Len(suffix) + 1, Len(s)) = suffix

\* dict.get(key): None when the key is missing
DictGet(d, key) == IF key \in DOMAIN d THEN d[key] ELSE None

\* All sequences over S of length at most n
SeqsUpTo(S, n) == UNION {[1..k -> S] : k \in 0..n}

---------------------------------------------------------------------------
(* config.py: constants and defaults *)

PULL_REQUEST == <<"p","u","l","l","_","r","e","q","u","e","s","t">>
COMMIT_MESSAGE == <<"c","o","m","m","i","t","_","m","e","s","s","a","g","e">>
MARKDOWN_FILE == <<"m","d">>
RESTRUCTUREDTEXT_FILE == <<"r","s","t">>

\* Configuration._fields
Fields ==
    {"header_prefix", "commit_changelog", "comment_changelog",
     "pull_request_title_regex", "version_regex", "changelog_type",
     "group_config", "exclude_labels", "include_unlabeled_changes",
     "unlabeled_group_title", "changelog_filename", "git_committer_username",
     "git_committer_email", "end_version", "start_version", "github_token"}

\* The default version pattern, kept as one token per group of the pattern
DefaultVersionRegex ==
    <<"v?", "(0|[1-9]\\d*)", "\\.", "(0|[1-9]\\d*)", "\\.?", "(0|[1-9]\\d*)?",
      "(?:-(...))?", "(?:\\+(...))?">>

\* The field defaults of the Configuration NamedTuple
Default(field) ==
    CASE field = "header_prefix" ->
             PyStr(<<"V","e","r","s","i","o","n",":">>)
      [] field = "commit_changelog" -> PyBool(TRUE)
      [] field = "comment_changelog" -> PyBool(FALSE)
      [] field = "pull_request_title_regex" ->
             PyStr(<<"^","(","?","i",":","r","e","l","e","a","s","e",")">>)
      [] field = "version_regex" -> PyStr(DefaultVersionRegex)
      [] field = "changelog_type" -> PyStr(PULL_REQUEST)
      [] field = "group_config" -> PyList(<<>>)
      [] field = "exclude_labels" -> PyList(<<>>)
      [] field = "include_unlabeled_changes" -> PyBool(TRUE)
      [] field = "unlabeled_group_title" ->
             PyStr(<<"O","t","h","e","r"," ","C","h","a","n","g","e","s">>)
      [] field = "changelog_filename" ->
             PyStr(<<"C","H","A","N","G","E","L","O","G",".">> \o MARKDOWN_FILE)
      [] field = "git_committer_username" ->
             PyStr(<<"github-actions[bot]">>)
      [] field = "git_committer_email" ->
             PyStr(<<"github-actions[bot]@users.noreply.github.com">>)
      [] field = "end_version" -> None
      [] field = "start_version" -> None
      [] field = "github_token" -> None

---------------------------------------------------------------------------
(* config.py: the per-option cleaners.  Each returns the cleaned value, or *)
(* None after its warning/notice (the messages themselves change no state) *)

\* Nesting depth of the groups of a pattern after each prefix: "(" opens a
\* group, ")" closes one
RECURSIVE GroupDepths(_, _)
GroupDepths(pattern, depth) ==
    IF pattern = <<>> THEN <<depth>>
    ELSE <<depth>> \o GroupDepths(Tail(pattern),
                                  CASE Head(pattern) = "(" -> depth + 1
                                    [] Head(pattern) = ")" -> depth - 1
                                    [] OTHER -> depth)

\* re.compile(value) returns (TRUE) or raises (FALSE): it raises TypeError
\* for what is no str, re.error for a pattern whose groups are unbalanced
ReCompiles(value) ==
    /\ isinstance(value, "str")
    /\ LET depths == GroupDepths(value.v, 0)
       IN /\ \A i \in 1..Len(depths) : depths[i] >= 0
          /\ depths[Len(depths)] = 0

clean_header_prefix(value) ==
    IF ~Truthy(value) \/ ~isinstance(value, "str") THEN None ELSE value

clean_commit_changelog(value) ==
    IF ~InZeroOneFalseTrue(value) THEN None ELSE bool(value)

clean_comment_changelog(value) ==
    IF ~InZeroOneFalseTrue(value) THEN None ELSE bool(value)

clean_pull_request_title_regex(value) ==
    IF ~Truthy(value) THEN None
    ELSE IF ReCompiles(value) THEN value
    ELSE None    \* except Exception

clean_version_regex(value) ==
    IF ~Truthy(value) THEN None
    ELSE IF ReCompiles(value) THEN value
    ELSE None    \* except Exception

\* clean_changelog_type without the membership test: any non-empty string
clean_changelog_type_any_string(value) ==
    IF ~(Truthy(value) /\ isinstance(value, "str")) THEN None ELSE value

clean_changelog_type(value) ==
    IF ~(/\ Truthy(value)
         /\ isinstance(value, "str")
         /\ value.v \in {PULL_REQUEST, COMMIT_MESSAGE})
    THEN None
    ELSE value

clean_include_unlabeled_changes(value) ==
    IF ~InZeroOneFalseTrue(value) THEN None ELSE bool(value)

clean_unlabeled_group_title(value) ==
    IF ~Truthy(value) \/ ~isinstance(value, "str") THEN None ELSE value

\* clean_changelog_filename testing the extension without its dot
clean_changelog_filename_no_dot(value) ==
    IF /\ Truthy(value)
       /\ isinstance(value, "str")
       /\ (endswith(value.v, <<"m","d">>) \/ endswith(value.v, <<"r","s","t">>))
    THEN value
    ELSE None

clean_changelog_filename(value) ==
    IF /\ Truthy(value)
       /\ isinstance(value, "str")
       /\ (endswith(value.v, <<".","m","d">>) \/ endswith(value.v, <<".","r","s","t">>))
    THEN value
    ELSE None

clean_git_committer_username(value) ==
    IF Truthy(value) /\ isinstance(value, "str") THEN value ELSE None

clean_git_committer_email(value) ==
    IF Truthy(value) /\ isinstance(value, "str") THEN value ELSE None

clean_start_version(value) ==
    IF Truthy(value) /\ isinstance(value, "str") THEN value ELSE None

clean_end_version(value) ==
    IF Truthy(value) /\ isinstance(value, "str") THEN value ELSE None

clean_github_token(value) ==
    IF Truthy(value) /\ isinstance(value, "str") THEN value ELSE None

clean_exclude_labels(value) ==
    IF Truthy(value) /\ isinstance(value, "list") THEN value ELSE PyList(<<>>)

\* all(isinstance(label, str) for label in labels)
AllStr(labels) == \A i \in 1..Len(labels) : isinstance(labels[i], "str")

\* _clean_group_config_item without the test that every label is a string
_clean_group_config_item_any_labels(value) ==
    IF ~isinstance(value, "dict") THEN None
    ELSE LET title == DictGet(value.v, "title")
             labels == DictGet(value.v, "labels")
         IN IF ~Truthy(title) \/ ~isinstance(title, "str") THEN None
            ELSE IF ~Truthy(labels) \/ ~isinstance(labels, "list") THEN None
            ELSE value

_clean_group_config_item(value) ==
    IF ~isinstance(value, "dict") THEN None
    ELSE LET title == DictGet(value.v, "title")
             labels == DictGet(value.v, "labels")
         IN IF ~Truthy(title) \/ ~isinstance(title, "str") THEN None
            ELSE IF ~Truthy(labels) \/ ~isinstance(labels, "list") THEN None
            ELSE IF ~AllStr(labels.v) THEN None
            ELSE value

\* The loop of clean_group_config over the items, in order
RECURSIVE CleanGroupItems(_)
CleanGroupItems(items) ==
    IF items = <<>> THEN <<>>
    ELSE LET cleaned_group_config_item == _clean_group_config_item(Head(items))
         IN (IF Truthy(cleaned_group_config_item)
             THEN <<cleaned_group_config_item>>
             ELSE <<>>) \o CleanGroupItems(Tail(items))

clean_group_config(value) ==
    IF ~Truthy(value) THEN None
    ELSE IF ~isinstance(value, "list") THEN None
    ELSE PyList(CleanGroupItems(value.v))

\* getattr(cls, f"clean_{key.lower()}", lambda x: None)(value)
Clean(key, value) ==
    CASE key = "header_prefix" -> clean_header_prefix(value)
      [] key = "commit_changelog" -> clean_commit_changelog(value)
      [] key = "comment_changelog" -> clean_comment_changelog(value)
      [] key = "pull_request_title_regex" -> clean_pull_request_title_regex(value)
      [] key = "version_regex" -> clean_version_regex(value)
      [] key = "changelog_type" -> clean_changelog_type(value)
      [] key = "group_config" -> clean_group_config(value)
      [] key = "exclude_labels" -> clean_exclude_labels(value)
      [] key = "include_unlabeled_changes" -> clean_include_unlabeled_changes(value)
      [] key = "unlabeled_group_title" -> clean_unlabeled_group_title(value)
      [] key = "changelog_filename" -> clean_changelog_filename(value)
      [] key = "git_committer_username" -> clean_git_committer_username(value)
      [] key = "git_committer_email" -> clean_git_committer_email(value)
      [] key = "end_version" -> clean_end_version(value)
      [] key = "start_version" -> clean_start_version(value)
      [] key = "github_token" -> clean_github_token(value)
      [] OTHER -> None

\* clean_user_config keeping a cleaned value of None
clean_user_config_keeps_none(raw) ==
    IF DOMAIN raw = {} THEN raw
    ELSE [key \in {k \in DOMAIN raw : k \in Fields} |-> Clean(key, raw[key])]

\* clean_user_config testing `if cleand_value` instead of `is not None`
clean_user_config_if_truthy(raw) ==
    IF DOMAIN raw = {} THEN raw
    ELSE LET kept == {key \in DOMAIN raw :
                         key \in Fields /\ Truthy(Clean(key, raw[key]))}
         IN [key \in kept |-> Clean(key, raw[key])]

\* Configuration.clean_user_config: a falsy (empty) mapping is returned as it
\* is; otherwise the recognized keys whose cleaned value is not None are kept
clean_user_config(raw) ==
    IF DOMAIN raw = {} THEN raw
    ELSE LET kept == {key \in DOMAIN raw :
                         key \in Fields /\ Clean(key, raw[key]) # None}
         IN [key \in kept |-> Clean(key, raw[key])]

\* cls(**cleaned_user_config): a keyword that is no field raises TypeError;
\* a field not given takes its default
ConstructorRaises(cleaned) == ~(DOMAIN cleaned \subseteq Fields)

Configuration(cleaned) ==
    [field \in Fields |->
        IF field \in DOMAIN cleaned THEN cleaned[field] ELSE Default(field)]

\* Configuration.changelog_file_type
changelog_file_type(c) ==
    IF endswith(c["changelog_filename"].v, <<".","r","s","t">>)
    THEN RESTRUCTUREDTEXT_FILE
    ELSE MARKDOWN_FILE

\* Configuration.get_user_config: the four inputs read from the environment
EnvGet(e, name) == IF name \in DOMAIN e THEN e[name] ELSE None

get_user_config(e) ==
    [key \in {"changelog_filename", "end_version", "start_version", "github_token"} |->
        CASE key = "changelog_filename" -> EnvGet(e, "INPUT_CHANGELOG_FILENAME")
          [] key = "end_version" -> EnvGet(e, "END_RELEASE_VERSION")
          [] key = "start_version" -> EnvGet(e, "START_RELEASE_VERSION")
          [] key = "github_token" -> EnvGet(e, "INPUT_GITHUB_TOKEN")]

---------------------------------------------------------------------------
(* The raw inputs the model draws from *)

\* Values of every Python type, valid for no option or for some
Generic ==
    {None, PyBool(TRUE), PyBool(FALSE)}
    \cup {PyInt(n) : n \in -1..2} \cup {PyFloat(n) : n \in -1..2}
    \cup {PyStr(<<>>), PyStr(<<"a">>), PyStr(<<"t","r","u","e">>)}
    \cup {PyList(<<>>), PyList(<<PyStr(<<"a">>)>>), PyList(<<PyInt(1)>>)}
    \cup {PyDict(<<>>), PyDict([title |-> PyStr(<<"a">>)])}

FilenameChars == {".", "m", "d", "r", "s", "t"}
PatternChars == {"a", "(", ")"}
LabelValues == {PyStr(<<"a">>), PyStr(<<"b">>), PyStr(<<>>), PyInt(1), None}
GroupLabelValues == {PyStr(<<"a">>), PyInt(1)}
GroupTitles == {PyStr(<<>>), PyInt(1)}
GroupLabels ==
    {PyList(xs) : xs \in SeqsUpTo(GroupLabelValues, MaxListLen)} \cup {PyStr(<<"a">>)}

\* The elements a group_config list is made of: dicts with a title and any
\* labels (of the right or the wrong type, or none), dicts with a wrong or no
\* title, and what is no dict
GroupItems ==
    {PyDict([title |-> PyStr(<<"T">>), labels |-> la]) : la \in GroupLabels}
    \cup {PyDict([title |-> ti, labels |-> PyList(<<PyStr(<<"a">>)>>)]) : ti \in GroupTitles}
    \cup {PyDict([title |-> PyStr(<<"T">>)]),
          PyDict([labels |-> PyList(<<PyStr(<<"a">>)>>)])}
    \cup {PyStr(<<"a">>), None}

\* Every value the model gives an option when it is the only one set
WideValues(key) ==
    Generic \cup
    CASE key = "changelog_filename" ->
             {PyStr(s) : s \in SeqsUpTo(FilenameChars, MaxStrLen)}
      [] key \in {"pull_request_title_regex", "version_regex"} ->
             {PyStr(s) : s \in SeqsUpTo(PatternChars, MaxStrLen)}
      [] key = "changelog_type" ->
             {PyStr(PULL_REQUEST), PyStr(COMMIT_MESSAGE),
              PyStr(<<"p","u","l","l">>), PyList(<<PyStr(PULL_REQUEST)>>)}
      [] key = "exclude_labels" ->
             {PyList(xs) : xs \in SeqsUpTo(LabelValues, MaxListLen)}
      [] key = "group_config" ->
             {PyList(xs) : xs \in SeqsUpTo(GroupItems, MaxGroups)}
      [] OTHER -> {}

ValidGroup == PyDict([title |-> PyStr(<<"T">>), labels |-> PyList(<<PyStr(<<"a">>)>>)])
BadGroup == PyDict([title |-> PyStr(<<"T">>), labels |-> PyList(<<PyInt(1)>>)])

\* The few values an option takes when several options are set together
NarrowValues(key) ==
    CASE key \in {"commit_changelog", "comment_changelog", "include_unlabeled_changes"} ->
             {None, PyBool(FALSE), PyBool(TRUE), PyInt(0), PyInt(2), PyStr(<<"a">>)}
      [] key = "changelog_filename" ->
             {None, PyStr(<<"a",".","m","d">>), PyStr(<<"a",".","r","s","t">>),
              PyStr(<<"a",".","t","x","t">>), PyInt(1)}
      [] key \in {"pull_request_title_regex", "version_regex"} ->
             {None, PyStr(<<"(","a",")">>), PyStr(<<"(","a">>), PyInt(1)}
      [] key = "changelog_type" ->
             {None, PyStr(PULL_REQUEST), PyStr(COMMIT_MESSAGE), PyStr(<<"a">>), PyInt(1)}
      [] key = "exclude_labels" ->
             {None, PyList(<<>>), PyList(<<PyStr(<<"a">>)>>),
              PyList(<<PyStr(<<"a">>), PyInt(1)>>), PyStr(<<"a">>)}
      [] key = "group_config" ->
             {None, PyList(<<ValidGroup>>), PyList(<<BadGroup, ValidGroup>>),
              PyList(<<BadGroup>>), PyStr(<<"a">>)}
      [] OTHER -> {None, PyStr(<<>>), PyStr(<<"a">>), PyInt(1)}

\* The keys of a raw mapping: the options, and one key that is no option
Keys == Fields \cup {"unknown_option"}

\* The mappings that give each key of ks one of its NarrowValues
RECURSIVE NarrowConfigs(_)
NarrowConfigs(ks) ==
    IF ks = {} THEN {<<>>}
    ELSE LET key == CHOOSE k \in ks : TRUE
             rests == NarrowConfigs(ks \ {key})
         IN {(key :> value) @@ rest : value \in NarrowValues(key), rest \in rests}

\* The raw mappings: one key with any of its values, or up to MaxKeys keys
\* with a few values each (the empty mapping among them)
IsRawConfig(raw) ==
    \/ \E key \in Keys : \E value \in WideValues(key) : raw = (key :> value)
    \/ \E ks \in SUBSET Keys : Cardinality(ks) <= MaxKeys /\ raw \in NarrowConfigs(ks)

---------------------------------------------------------------------------
(* State *)

NoConfig == <<>>
Absent == [exists |-> FALSE, content |-> <<>>]
File(content) == [exists |-> TRUE, content |-> content]

\* The resolver, called with a raw mapping
Init ==
    /\ pc = "resolve"
    /\ IsRawConfig(user_config)
    /\ config = NoConfig
    /\ error = "none"
    /\ release_version = None
    /\ builder = "none"
    /\ env = <<>>
    /\ changelog_file = Absent
    /\ file_before = Absent
    /\ changelog_string = <<>>

\* clean_user_config(user_config), then Configuration(**cleaned_user_config)
Resolve ==
    /\ pc = "resolve"
    /\ LET cleaned_user_config == clean_user_config(user_config)
       IN IF ConstructorRaises(cleaned_user_config)
          THEN /\ pc' = "failed"
               /\ error' = "TypeError"
               /\ UNCHANGED config
          ELSE /\ pc' = "resolved"
               /\ config' = Configuration(cleaned_user_config)
               /\ UNCHANGED error
    /\ UNCHANGED <<user_config, release_version, builder, env, changelog_file,
                   file_before, changelog_string>>

\* ChangelogCIPullRequestEvent._get_release_version
_get_release_version(c) == c["end_version"]

\* ChangelogCIBase._get_changelog_builder: the builder's class, or "none"
\* when it raises ValueError("Unknown changelog type")
_get_changelog_builder(c) ==
    IF c["changelog_type"] = PyStr(PULL_REQUEST) THEN "PullRequestChangelogBuilder"
    ELSE IF c["changelog_type"] = PyStr(COMMIT_MESSAGE) THEN "CommitMessageChangelogBuilder"
    ELSE "none"

\* ChangelogCIPullRequestEvent(config, action_env): ChangelogCIBase.__init__
CIInit ==
    /\ pc = "resolved"
    /\ release_version' = _get_release_version(config)
    /\ builder' = _get_changelog_builder(config)
    /\ IF _get_changelog_builder(config) = "none"
       THEN pc' = "failed" /\ error' = "ValueError"
       ELSE pc' = "ready" /\ UNCHANGED error
    /\ UNCHANGED <<user_config, config, env, changelog_file, file_before,
                   changelog_string>>

Next == Resolve \/ CIInit

Spec == Init /\ [][Next]_vars

---------------------------------------------------------------------------
(* main.py: one run of the action, and the changelog file *)

LF == "\n"
CR == "\r"
FileChars == {"a", LF, CR}

\* Reading in text mode (newline=None): "\r\n" and "\r" are read as "\n"
RECURSIVE ReadText(_)
ReadText(data) ==
    IF data = <<>> THEN <<>>
    ELSE IF Head(data) = CR
    THEN IF Len(data) >= 2 /\ data[2] = LF
         THEN <<LF>> \o ReadText(Tail(Tail(data)))
         ELSE <<LF>> \o ReadText(Tail(data))
    ELSE <<Head(data)>> \o ReadText(Tail(data))

\* Writing in text mode (newline=None): "\n" is written as os.linesep, which
\* is "\n" where the action runs (a Linux container)
linesep == <<LF>>

RECURSIVE WriteText(_)
WriteText(string) ==
    IF string = <<>> THEN <<>>
    ELSE (IF Head(string) = LF THEN linesep ELSE <<Head(string)>>)
         \o WriteText(Tail(string))

\* f.write(data) at position pos of a file opened for update: it overwrites
\* what is there, extends the file past its end, and truncates nothing
WriteAt(content, pos, data) ==
    SubSeq(content, 1, pos) \o data
    \o SubSeq(content, pos + Len(data) + 1, Len(content))

\* ChangelogCIBase._open_file_mode
_open_file_mode(file) == IF file.exists THEN "r+" ELSE "w+"

\* ChangelogCIBase._update_changelog_file: the file's content afterwards
_update_changelog_file(file, string_data) ==
    LET opened == IF _open_file_mode(file) = "w+" THEN <<>> ELSE file.content
        body == ReadText(opened)
        new == WriteText(string_data)
        written == WriteAt(opened, 0, new)
        sep == WriteText(<<LF, LF>>)
    IN IF body # <<>>
       THEN WriteAt(WriteAt(written, Len(new), sep),
                    Len(new) + Len(sep), WriteText(body))
       ELSE written

\* The environment of a run: GITHUB_REPOSITORY, which the runner always sets,
\* and up to MaxKeys of the inputs; every value is a string
EnvValues(name) ==
    CASE name = "INPUT_CHANGELOG_FILENAME" ->
             {<<"a",".","m","d">>, <<"a",".","r","s","t">>, <<"a">>}
      [] name = "END_RELEASE_VERSION" -> {<<"1",".","0">>, <<>>}
      [] name = "START_RELEASE_VERSION" -> {<<"0",".","9">>}
      [] name = "INPUT_GITHUB_TOKEN" -> {<<"k">>}
      [] name = "INPUT_HEADER_PREFIX" -> {<<"R">>}

InputNames ==
    {"INPUT_CHANGELOG_FILENAME", "END_RELEASE_VERSION", "START_RELEASE_VERSION",
     "INPUT_GITHUB_TOKEN", "INPUT_HEADER_PREFIX"}

RECURSIVE EnvsOver(_)
EnvsOver(names) ==
    IF names = {} THEN {("GITHUB_REPOSITORY" :> PyStr(<<"o","/","r">>))}
    ELSE LET name == CHOOSE n \in names : TRUE
             rests == EnvsOver(names \ {name})
         IN {(name :> PyStr(value)) @@ rest : value \in EnvValues(name), rest \in rests}

Envs ==
    UNION {EnvsOver(names) :
              names \in {N \in SUBSET InputNames : Cardinality(N) <= MaxKeys}}

\* What builder.build() may return
Sections == SeqsUpTo(FileChars, MaxSectionLen)

\* The changelog file before the first run: absent, empty, or any content
InitialFiles == {Absent} \cup {File(c) : c \in SeqsUpTo(FileChars, MaxFileLen)}

\* The environments and files of a first run: any file with the release
\* version given or not, or any environment with the file absent or empty
\* (later runs find what earlier ones wrote)
FirstRuns ==
    {<<e, f>> \in Envs \X InitialFiles :
        \/ DOMAIN e \subseteq {"GITHUB_REPOSITORY", "END_RELEASE_VERSION"}
        \/ f.content = <<>>}

InitRun ==
    /\ pc = "main"
    /\ \E first \in FirstRuns : env = first[1] /\ changelog_file = first[2]
    /\ user_config = <<>>
    /\ config = NoConfig
    /\ error = "none"
    /\ release_version = None
    /\ builder = "none"
    /\ file_before = changelog_file
    /\ changelog_string = <<>>

\* Configuration.create(os.environ), then ActionEnvironment.from_env(os.environ)
Create ==
    /\ pc = "main"
    /\ user_config' = get_user_config(env)
    /\ LET cleaned_user_config == clean_user_config(get_user_config(env))
       IN IF ConstructorRaises(cleaned_user_config)
          THEN pc' = "failed" /\ error' = "TypeError" /\ UNCHANGED config
          ELSE /\ config' = Configuration(cleaned_user_config)
               /\ IF "GITHUB_REPOSITORY" \in DOMAIN env
                  THEN pc' = "resolved" /\ UNCHANGED error
                  ELSE pc' = "failed" /\ error' = "KeyError"
    /\ UNCHANGED <<release_version, builder, env, changelog_file, file_before,
                   changelog_string>>

\* run(): self.builder.build() returns the changelog string
Build ==
    /\ pc = "ready"
    /\ \E string \in Sections : changelog_string' = string
    /\ pc' = "built"
    /\ UNCHANGED <<user_config, config, error, release_version, builder, env,
                   changelog_file, file_before>>

\* run() opening the changelog file (creating it) before it builds
BuildFails_file_opened_first ==
    /\ pc = "ready"
    /\ pc' = "failed"
    /\ error' = "BuildError"
    /\ changelog_file' = IF changelog_file.exists THEN changelog_file ELSE File(<<>>)
    /\ UNCHANGED <<user_config, config, release_version, builder, env,
                   file_before, changelog_string>>

\* run(): self.builder.build() raises (a failed request); the run ends there
BuildFails ==
    /\ pc = "ready"
    /\ pc' = "failed"
    /\ error' = "BuildError"
    /\ UNCHANGED <<user_config, config, release_version, builder, env,
                   changelog_file, file_before, changelog_string>>

\* run(): self._update_changelog_file(changelog_string)
UpdateChangelogFile ==
    /\ pc = "built"
    /\ changelog_file' = File(_update_changelog_file(changelog_file, changelog_string))
    /\ pc' = "done"
    /\ UNCHANGED <<user_config, config, error, release_version, builder, env,
                   file_before, changelog_string>>

\* The next run of the workflow finds the file as this run left it
NewRun ==
    /\ pc \in {"done", "failed"}
    /\ Len(changelog_file.content) <= MaxFileLen
    /\ pc' = "main"
    /\ user_config' = <<>>
    /\ config' = NoConfig
    /\ error' = "none"
    /\ release_version' = None
    /\ builder' = "none"
    /\ file_before' = changelog_file
    /\ changelog_string' = <<>>
    /\ UNCHANGED <<env, changelog_file>>

NextRun == Create \/ CIInit \/ Build \/ BuildFails \/ UpdateChangelogFile \/ NewRun

SpecRun == InitRun /\ [][NextRun]_vars

---------------------------------------------------------------------------
(* Properties of the resolver *)

Resolved == pc \in {"resolved", "ready"}

\* The raw value given for an option; an absent option reads as None
Raw(key) == IF key \in DOMAIN user_config THEN user_config[key] ELSE None

IsStr(value) == value.t = "str"
NonEmptyStr(value) == value.t = "str" /\ value.v # <<>>

\* The last n characters of s are the characters of suffix, one by one
HasSuffix(s, suffix) ==
    /\ Len(s) >= Len(suffix)
    /\ \A i \in 1..Len(suffix) : s[Len(s) - Len(suffix) + i] = suffix[i]

IsGroupRule(item) ==
    /\ item.t = "dict"
    /\ {"title", "labels"} \subseteq DOMAIN item.v
    /\ NonEmptyStr(item.v["title"])
    /\ item.v["labels"].t = "list"
    /\ item.v["labels"].v # <<>>
    /\ \A i \in DOMAIN item.v["labels"].v : IsStr(item.v["labels"].v[i])

\* C5: the resolved group_config is the subsequence of the given list's
\* elements that are group rules, in their order; a missing, empty or
\* non-list value resolves to the empty list; every resolved rule is valid.
C5_GroupConfigIsValidSubsequence ==
    Resolved =>
        /\ config["group_config"] =
              IF Raw("group_config").t = "list"
              THEN PyList(SelectSeq(Raw("group_config").v, IsGroupRule))
              ELSE PyList(<<>>)
        /\ \A i \in DOMAIN config["group_config"].v :
              IsGroupRule(config["group_config"].v[i])

\* C5 witness: a list that mixes valid and invalid elements, resolved to a
\* non-empty list shorter than the one given
C5_Witness ==
    /\ Resolved
    /\ Raw("group_config").t = "list"
    /\ Len(config["group_config"].v) > 0
    /\ Len(config["group_config"].v) < Len(Raw("group_config").v)

IsListOfStr(value) ==
    value.t = "list" /\ \A i \in DOMAIN value.v : IsStr(value.v[i])

\* C6: the resolved exclude_labels is the given value when it is a list of
\* strings and the empty list otherwise, so it never holds a non-string.
C6_ExcludeLabelsAreStrings ==
    Resolved =>
        /\ config["exclude_labels"] =
              IF IsListOfStr(Raw("exclude_labels"))
              THEN Raw("exclude_labels")
              ELSE PyList(<<>>)
        /\ IsListOfStr(config["exclude_labels"])

\* C7: the resolved filename is the given value when it is a non-empty
\* string ending in ".md" or ".rst", and "CHANGELOG.md" otherwise; the dialect
\* is restructuredtext exactly when the resolved filename ends in ".rst", and
\* markdown otherwise.
C7_FilenameAndDialect ==
    Resolved =>
        LET raw == Raw("changelog_filename")
            name == config["changelog_filename"]
        IN /\ name =
                 IF /\ NonEmptyStr(raw)
                    /\ (HasSuffix(raw.v, <<".","m","d">>) \/ HasSuffix(raw.v, <<".","r","s","t">>))
                 THEN raw
                 ELSE PyStr(<<"C","H","A","N","G","E","L","O","G",".","m","d">>)
           /\ IsStr(name)
           /\ HasSuffix(name.v, <<".","m","d">>) \/ HasSuffix(name.v, <<".","r","s","t">>)
           /\ changelog_file_type(config) =
                 IF HasSuffix(name.v, <<".","r","s","t">>) THEN <<"r","s","t">> ELSE <<"m","d">>

\* C7 witness: a ".rst" filename given together with another option
C7_Witness ==
    /\ Resolved
    /\ Cardinality(DOMAIN user_config) > 1
    /\ NonEmptyStr(Raw("changelog_filename"))
    /\ config["changelog_filename"] = Raw("changelog_filename")
    /\ changelog_file_type(config) = <<"r","s","t">>

BoolOptions == {"commit_changelog", "comment_changelog", "include_unlabeled_changes"}

\* A raw value that is 0 or false; 1 or true.  A number is 0 or 1 by its
\* value, as Python compares numbers (0.0 is 0).
IsZeroOrFalse(value) ==
    \/ value.t = "bool" /\ value.v = FALSE
    \/ value.t \in {"int", "float"} /\ value.v = 0
IsOneOrTrue(value) ==
    \/ value.t = "bool" /\ value.v = TRUE
    \/ value.t \in {"int", "float"} /\ value.v = 1

\* C8: for commit_changelog, comment_changelog and include_unlabeled_changes
\* a raw 0/false resolves to false, a raw 1/true to true, and any other or
\* absent value to the default (true, false, true); an explicit false is kept.
C8_BooleanOptions ==
    Resolved =>
        \A key \in BoolOptions :
            config[key] =
                IF IsZeroOrFalse(Raw(key)) THEN PyBool(FALSE)
                ELSE IF IsOneOrTrue(Raw(key)) THEN PyBool(TRUE)
                ELSE PyBool(key # "comment_changelog")

\* C8 witness: an explicit false/0 for an option whose default is true, kept
C8_Witness ==
    /\ Resolved
    /\ \E key \in {"commit_changelog", "include_unlabeled_changes"} :
          /\ key \in DOMAIN user_config
          /\ IsZeroOrFalse(user_config[key])
          /\ config[key] = PyBool(FALSE)

\* C10: a resolved changelog_type is "pull_request" or "commit_message" (any
\* other or absent raw value resolves to "pull_request"), so builder
\* selection picks the matching builder and never raises ValueError.
C10_BuilderAlwaysSelected ==
    /\ error # "ValueError"
    /\ Resolved =>
          /\ config["changelog_type"] \in {PyStr(PULL_REQUEST), PyStr(COMMIT_MESSAGE)}
          /\ Raw("changelog_type") \notin {PyStr(PULL_REQUEST), PyStr(COMMIT_MESSAGE)}
                => config["changelog_type"] = PyStr(PULL_REQUEST)
    /\ pc = "ready" =>
          /\ config["changelog_type"] = PyStr(PULL_REQUEST)
                <=> builder = "PullRequestChangelogBuilder"
          /\ config["changelog_type"] = PyStr(COMMIT_MESSAGE)
                <=> builder = "CommitMessageChangelogBuilder"

\* C10 witness: a builder selected for a raw changelog_type that is a string
\* but no changelog type, resolved to "pull_request"
C10_Witness ==
    /\ pc = "ready"
    /\ builder = "PullRequestChangelogBuilder"
    /\ NonEmptyStr(Raw("changelog_type"))
    /\ Raw("changelog_type") # PyStr(PULL_REQUEST)

---------------------------------------------------------------------------
(* Properties of a run *)

\* C1: after _update_changelog_file(NEW) the file is exactly NEW + "\n\n" +
\* OLD when the file held a non-empty OLD, and exactly NEW when it was empty
\* or absent.
C1_FileIsNewThenOld ==
    pc = "done" =>
        /\ changelog_file.exists
        /\ changelog_file.content =
              IF file_before.exists /\ file_before.content # <<>>
              THEN changelog_string \o <<LF, LF>> \o file_before.content
              ELSE changelog_string

HasCR(string) == \E i \in DOMAIN string : string[i] = CR

\* What the code does keep of C1: the statement holds of every file whose
\* old content holds no carriage return
C1_HoldsWithoutCarriageReturn ==
    pc = "done" /\ ~HasCR(file_before.content) =>
        /\ changelog_file.exists
        /\ changelog_file.content =
              IF file_before.exists /\ file_before.content # <<>>
              THEN changelog_string \o <<LF, LF>> \o file_before.content
              ELSE changelog_string

\* The name an option is given in the environment: the names get_user_config
\* reads, and the runner's INPUT_<OPTION> for an option it does not read
OptionEnvName(field) ==
    CASE field = "changelog_filename" -> "INPUT_CHANGELOG_FILENAME"
      [] field = "end_version" -> "END_RELEASE_VERSION"
      [] field = "start_version" -> "START_RELEASE_VERSION"
      [] field = "github_token" -> "INPUT_GITHUB_TOKEN"
      [] field = "header_prefix" -> "INPUT_HEADER_PREFIX"
      [] OTHER -> "(no name)"

\* C3: every option is looked up in the environment: a valid value supplied
\* for an option is the value of its field in the Settings that
\* Configuration.create resolves.
C3_EveryOptionIsLookedUp ==
    pc \in {"resolved", "ready", "built", "done"} =>
        \A field \in Fields :
            (/\ OptionEnvName(field) \in DOMAIN env
             /\ Clean(field, env[OptionEnvName(field)]) # None)
            => config[field] = Clean(field, env[OptionEnvName(field)])

\* C4: the release version of a pull-request run is the end_version setting,
\* and version resolution fails when end_version is None, so that no run gets
\* past it without a version.
C4_VersionResolvedOrRunFails ==
    pc \in {"ready", "built", "done"} =>
        /\ release_version = config["end_version"]
        /\ config["end_version"] # None

\* C9: the changelog file is written only after build() has returned: until
\* then, and when the build (or anything before it) fails, the file is as it
\* was when the run started, neither created nor changed.
C9_FileUntouchedUnlessBuilt ==
    /\ pc \in {"main", "resolved", "ready", "built", "failed"} =>
          changelog_file = file_before
    /\ changelog_file # file_before => pc = "done"

\* C9 witness: a run whose build failed while the file was absent
C9_Witness ==
    /\ pc = "failed"
    /\ error = "BuildError"
    /\ ~file_before.exists
    /\ ~changelog_file.exists

====
